---- MODULE Spec2Model ----
(***************************************************************************)
(* Model of the LMS back end's request handlers                            *)
(*   src/controllers/user.controller.js   (accounts, sign-in, reset)       *)
(*   src/controllers/course.controller.js (courses, lectures, search)      *)
(* The database collections, the media store and the clock are the state;  *)
(* every handler is one action that reads the request from small input     *)
(* sets, runs the handler's statements in order and records the response   *)
(* in `last`.  addLectureToCourse is also modelled split at its awaits     *)
(* (SpecConc) to study concurrent requests.                                *)
(***************************************************************************)
EXTENDS Integers, Sequences, FiniteSets, TLC

VARIABLES
    users,      \* User collection: sequence of documents, _id = position
    courses,    \* Course collection: sequence of documents, _id = position
    lectures,   \* Lecture collection: sequence of documents, _id = position
    media,      \* media store: set of stored asset urls
    uploads,    \* number of assets the media store has handed out so far
    now,        \* Date.now()
    nextToken,  \* number of reset tokens drawn from crypto.randomBytes so far
    consumed,   \* history: raw reset tokens a successful resetPassword has used
    reqs,       \* in-flight addLectureToCourse requests (SpecConc only)
    last        \* the last request together with its response

vars == <<users, courses, lectures, media, uploads, now, nextToken, consumed, reqs, last>>

----------------------------------------------------------------------------
(* Bounds *)

MaxUsers    == 2
MaxCourses  == 1
MaxLectures == 2
MaxUploads  == 2
MaxTime     == 2
MaxTokens   == 2
MaxReqs     == 2
MaxCatalog  == 2
MaxListed   == 4

----------------------------------------------------------------------------
(* Values *)

\* a request field that was not sent (JavaScript undefined)
Undefined == "undefined"

LowerChar(ch) ==
    CASE ch = "A" -> "a"
      [] ch = "B" -> "b"
      [] ch = "G" -> "g"
      [] ch = "J" -> "j"
      [] OTHER    -> ch

\* String.prototype.toLowerCase on a string held as a sequence of characters
toLowerCase(s) == [i \in DOMAIN s |-> LowerChar(s[i])]

Emails == { <<"a","b">>, <<"A","B">>, <<"b","A">> }
Passwords == { "pw1", "pw2" }
RoleInputs == { Undefined }

Min(a, b) == IF a <= b THEN a ELSE b

\* an optional request parameter: <<>> when it was not sent, <<v>> when it was
None == <<>>
Some(v) == <<v>>

----------------------------------------------------------------------------
(* User model methods and token issuer *)

\* pre-save hook: the stored password is a one-way digest of the plaintext
hash(plain) == <<"bcrypt", plain>>

\* user.comparePassword(plain)
comparePassword(user, plain) == user.password = hash(plain)

\* crypto.createHash("sha256").update(token).digest("hex")
sha256(token) == [alg |-> "sha256", of |-> token]

NoDigest == [alg |-> "none", of |-> 0]
NoExpire == -1

\* reset window of user.getResetPasswordToken(), in clock ticks
ResetWindow == 1

\* user.getResetPasswordToken(): stores the digest of a fresh raw token and
\* its expiry on the document
getResetPasswordToken(user, raw) ==
    [user EXCEPT !.resetPasswordToken = sha256(raw),
                 !.resetPasswordExpire = now + ResetWindow]

\* user.updateLastActive()
updateLastActive(user) == [user EXCEPT !.lastActive = now]

NoCredential == [userId |-> 0]

\* generateToken(res, user, message): the signed credential embeds the id
generateToken(userId) == [userId |-> userId]

\* User.create({...}) with the schema defaults
NewUser(email, password, role) ==
    [ email |-> email,
      password |-> hash(password),
      role |-> role,
      lastActive |-> 0,
      createdCourses |-> <<>>,
      resetPasswordToken |-> NoDigest,
      resetPasswordExpire |-> NoExpire ]

\* User.findOne({ email }): the _id of the first match, 0 when there is none
FindUserByEmail(us, email) ==
    IF \E i \in DOMAIN us : us[i].email = email
    THEN CHOOSE i \in DOMAIN us :
            /\ us[i].email = email
            /\ \A j \in DOMAIN us : us[j].email = email => i <= j
    ELSE 0

SignupEmail_AsTyped(email) == email

\* the address createUserAccount looks up and stores
SignupEmail(email) == toLowerCase(email)

authenticateStatus_NoPasswordCheck(us, user, password) ==
    IF user = 0 THEN 404 ELSE 200

\* the outcome of authenticateUser's two checks, in their order
authenticateStatus(us, user, password) ==
    IF user = 0 THEN 404
    ELSE IF ~comparePassword(us[user], password) THEN 401
    ELSE 200

\* User.findOne({ resetPasswordToken: digest, resetPasswordExpire: {$gt: Date.now()} })
ResetMatches(user, token, time) ==
    /\ user.resetPasswordToken = sha256(token)
    /\ user.resetPasswordExpire # NoExpire
    /\ user.resetPasswordExpire > time

FindUserByResetToken(us, token, time) ==
    IF \E i \in DOMAIN us : ResetMatches(us[i], token, time)
    THEN CHOOSE i \in DOMAIN us :
            /\ ResetMatches(us[i], token, time)
            /\ \A j \in DOMAIN us : ResetMatches(us[j], token, time) => i <= j
    ELSE 0

ResetUser_KeepsToken(user, password) ==
    [user EXCEPT !.password = hash(password)]

\* the document resetPassword saves for the matched account
ResetUser(user, password) ==
    [user EXCEPT !.password = hash(password),
                 !.resetPasswordToken = NoDigest,
                 !.resetPasswordExpire = NoExpire]

----------------------------------------------------------------------------
(* Responses *)

Resp(op, req, status, data) == [op |-> op, req |-> req, status |-> status, data |-> data]

NoResp == Resp("none", [x |-> 0], 0, [x |-> 0])

UserFrame == UNCHANGED <<courses, lectures, media, uploads, reqs>>

----------------------------------------------------------------------------
(* user.controller.js *)

createUserAccount ==
    /\ \E email \in Emails, password \in Passwords, roleIn \in RoleInputs :
        LET role == IF roleIn = Undefined THEN "student" ELSE roleIn
            req == [email |-> email, password |-> password, role |-> roleIn]
            user == FindUserByEmail(users, SignupEmail(email))
        IN  IF user # 0
            THEN /\ last' = Resp("createUserAccount", req, 409, NoCredential)
                 /\ UNCHANGED users
            ELSE /\ Len(users) < MaxUsers
                 /\ users' = Append(users,
                        updateLastActive(NewUser(SignupEmail(email), password, role)))
                 /\ last' = Resp("createUserAccount", req, 200,
                                 generateToken(Len(users) + 1))
    /\ UNCHANGED <<now, nextToken, consumed>>
    /\ UserFrame

authenticateUser ==
    /\ \E email \in Emails, password \in Passwords :
        LET req == [email |-> email, password |-> password]
            user == FindUserByEmail(users, toLowerCase(email))
            status == authenticateStatus(users, user, password)
        IN  IF status # 200
            THEN /\ last' = Resp("authenticateUser", req, status, NoCredential)
                 /\ UNCHANGED users
            ELSE /\ users' = [users EXCEPT ![user] = updateLastActive(@)]
                 /\ last' = Resp("authenticateUser", req, 200, generateToken(user))
    /\ UNCHANGED <<now, nextToken, consumed>>
    /\ UserFrame

changeUserPassword ==
    /\ \E id \in 1..MaxUsers, currentPassword \in Passwords, newPassword \in Passwords :
        LET req == [id |-> id, currentPassword |-> currentPassword,
                    newPassword |-> newPassword]
        IN  IF id \notin DOMAIN users
            THEN /\ last' = Resp("changeUserPassword", req, 404, NoCredential)
                 /\ UNCHANGED users
            ELSE IF ~comparePassword(users[id], currentPassword)
            THEN /\ last' = Resp("changeUserPassword", req, 401, NoCredential)
                 /\ UNCHANGED users
            ELSE /\ users' = [users EXCEPT ![id].password = hash(newPassword)]
                 /\ last' = Resp("changeUserPassword", req, 200, NoCredential)
    /\ UNCHANGED <<now, nextToken, consumed>>
    /\ UserFrame

forgotPassword ==
    /\ \E email \in Emails :
        LET req == [email |-> email]
            user == FindUserByEmail(users, toLowerCase(email))
        IN  IF user = 0
            THEN /\ last' = Resp("forgotPassword", req, 404, NoCredential)
                 /\ UNCHANGED <<users, nextToken>>
            ELSE /\ nextToken < MaxTokens
                 /\ nextToken' = nextToken + 1
                 /\ users' = [users EXCEPT
                        ![user] = getResetPasswordToken(@, nextToken + 1)]
                 /\ last' = Resp("forgotPassword", req, 200, NoCredential)
    /\ UNCHANGED <<now, consumed>>
    /\ UserFrame

resetPassword ==
    /\ \E token \in 1..MaxTokens, password \in Passwords :
        LET req == [token |-> token, password |-> password]
            user == FindUserByResetToken(users, token, now)
        IN  IF user = 0
            THEN /\ last' = Resp("resetPassword", req, 404, NoCredential)
                 /\ UNCHANGED <<users, consumed>>
            ELSE /\ users' = [users EXCEPT ![user] = ResetUser(@, password)]
                 /\ consumed' = consumed \cup {token}
                 /\ last' = Resp("resetPassword", req, 200, NoCredential)
    /\ UNCHANGED <<now, nextToken>>
    /\ UserFrame

\* the passage of time between requests
Tick ==
    /\ now < MaxTime
    /\ now' = now + 1
    /\ last' = Resp("tick", [x |-> 0], 0, [x |-> 0])
    /\ UNCHANGED <<users, courses, lectures, media, uploads, nextToken, consumed, reqs>>

Init ==
    /\ users = <<>>
    /\ courses = <<>>
    /\ lectures = <<>>
    /\ media = {}
    /\ uploads = 0
    /\ now = 1
    /\ nextToken = 0
    /\ consumed = {}
    /\ reqs = [r \in 1..MaxReqs |-> [pc |-> "idle"]]
    /\ last = NoResp

NextUser ==
    \/ createUserAccount
    \/ authenticateUser
    \/ changeUserPassword
    \/ forgotPassword
    \/ resetPassword
    \/ Tick

SpecUser == Init /\ [][NextUser]_vars

----------------------------------------------------------------------------
(* Media store *)

Url(n) == [store |-> "cloud", id |-> n, path |-> ""]
LocalPath(file) == [store |-> "local", id |-> 0, path |-> file]
NoMedia == [store |-> "none", id |-> 0, path |-> ""]

\* req.file: Undefined when the request carries no file, else its local path
Files == { Undefined, "upload.tmp" }

\* uploadMedia(path): the stored asset, or nothing when the store fails
uploadMedia(ok) == IF ok THEN Url(uploads + 1) ELSE NoMedia

\* the media store after uploadMedia(path) returned `result`
AfterUpload(store, result) == IF result = NoMedia THEN store ELSE store \cup {result}

\* deleteMediaFromCloudinary(asset)
deleteMedia(store, asset) == store \ {asset}

----------------------------------------------------------------------------
(* course.controller.js: helpers *)

\* the ids the session middleware can put in req.id: the registered accounts
Callers == {1, 2}
CourseIds == 1..MaxCourses

\* Course.create({...}) with the schema defaults
NewCourse(body, thumbnail, instructor) ==
    [ title |-> body.title,
      subtitle |-> body.subtitle,
      description |-> body.description,
      category |-> body.category,
      level |-> body.level,
      price |-> body.price,
      thumbnail |-> thumbnail,
      instructor |-> instructor,
      lectures |-> <<>>,
      enrolledStudents |-> <<>>,
      isPublished |-> FALSE ]

\* User.findByIdAndUpdate(req.id, { $push: { createdCourses: course._id } })
PushCreatedCourse(us, id, courseId) ==
    IF id \in DOMAIN us
    THEN [us EXCEPT ![id].createdCourses = Append(@, courseId)]
    ELSE us

canModify_Anyone(course, callerId) == TRUE

\* course.instructor.toString() === req.id
canModify(course, callerId) == course.instructor = callerId

\* the checks of updateCourseDetails, in their order; 200 when all pass
updateStatus(cs, courseId, callerId, file) ==
    IF courseId \notin DOMAIN cs THEN 404
    ELSE IF ~canModify(cs[courseId], callerId) THEN 403
    ELSE 200

Supplied(body, field) == field \in DOMAIN body

UpdateFields_Overwrite(course, body, thumbnail) ==
    [course EXCEPT
        !.title = IF Supplied(body, "title") THEN body.title ELSE <<>>,
        !.subtitle = IF Supplied(body, "subtitle") THEN body.subtitle ELSE <<>>,
        !.description = IF Supplied(body, "description") THEN body.description ELSE <<>>,
        !.category = IF Supplied(body, "category") THEN body.category ELSE "",
        !.level = IF Supplied(body, "level") THEN body.level ELSE "",
        !.price = IF Supplied(body, "price") THEN body.price ELSE 0,
        !.thumbnail = IF thumbnail # NoMedia THEN thumbnail ELSE @]

\* Course.findByIdAndUpdate(courseId, { title, subtitle, description, category,
\* level, price, ...(thumbnail && { thumbnail }) }): keys whose value is
\* undefined are left out of the update
UpdateFields(course, body, thumbnail) ==
    [course EXCEPT
        !.title = IF Supplied(body, "title") THEN body.title ELSE @,
        !.subtitle = IF Supplied(body, "subtitle") THEN body.subtitle ELSE @,
        !.description = IF Supplied(body, "description") THEN body.description ELSE @,
        !.category = IF Supplied(body, "category") THEN body.category ELSE @,
        !.level = IF Supplied(body, "level") THEN body.level ELSE @,
        !.price = IF Supplied(body, "price") THEN body.price ELSE @,
        !.thumbnail = IF thumbnail # NoMedia THEN thumbnail ELSE @]

\* the checks of addLectureToCourse before the upload, in their order; 0 when
\* all pass
addLectureStatus(cs, courseId, callerId, file) ==
    IF courseId \notin DOMAIN cs THEN 404
    ELSE IF ~canModify(cs[courseId], callerId) THEN 403
    ELSE IF file = Undefined THEN 400
    ELSE 0

lectureOrder_Count(course) == Len(course.lectures)

lectureOrder_Collection(course) == Len(lectures) + 1

\* order: course.lectures.length + 1, on the course document as it was read
lectureOrder(course) == Len(course.lectures) + 1

\* Lecture.create({...})
NewLecture(course, body, result) ==
    [ title |-> body.title,
      isPreview |-> IF Supplied(body, "isPreview") THEN body.isPreview ELSE FALSE,
      order |-> lectureOrder(course),
      videoUrl |-> result ]

\* course.lectures.push(lecture._id); course.save(): the array push is sent
\* as a $push on the stored document
SaveLecturePush(cs, courseId, lectureId) ==
    [cs EXCEPT ![courseId].lectures = Append(@, lectureId)]

\* a lecture document as a response carries it
LectureDoc(ls, id) ==
    [ _id |-> id, title |-> ls[id].title, isPreview |-> ls[id].isPreview,
      order |-> ls[id].order, videoUrl |-> ls[id].videoUrl ]

Range(s) == { s[i] : i \in DOMAIN s }

\* populate("lectures", { options: { sort: { order: 1 } } }): every ordering of
\* the course's lecture documents that ascends in `order`
PopulateLectures(ls, ids) ==
    { s \in [1..Len(ids) -> { LectureDoc(ls, id) : id \in Range(ids) }] :
        /\ \A id \in Range(ids) : \E i \in 1..Len(ids) : s[i]._id = id
        /\ \A i, j \in 1..Len(ids) : i < j => s[i].order <= s[j].order }

visibleLectures_All(lects, isEnrolled, isInstructor) == lects

\* the lectures getCourseLectures returns to a caller with the given access
visibleLectures(lects, isEnrolled, isInstructor) ==
    IF ~isEnrolled /\ ~isInstructor
    THEN SelectSeq(lects, LAMBDA lecture : lecture.isPreview)
    ELSE lects

----------------------------------------------------------------------------
(* course.controller.js: handlers *)

CourseFrame == UNCHANGED <<now, nextToken, consumed, reqs>>

createNewCourse(ids, bodies, max) ==
    /\ \E id \in ids, body \in bodies, file \in Files, ok \in BOOLEAN :
        LET req == [id |-> id, body |-> body, file |-> file]
            result == uploadMedia(ok)
        IN  IF file = Undefined
            THEN /\ last' = Resp("createNewCourse", req, 400, [x |-> 0])
                 /\ UNCHANGED <<users, courses, media, uploads>>
            ELSE IF result = NoMedia
            THEN \* thumbnail is the request object: Course.create rejects it
                 /\ last' = Resp("createNewCourse", req, 500, [x |-> 0])
                 /\ UNCHANGED <<users, courses, media, uploads>>
            ELSE /\ Len(courses) < max
                 /\ uploads' = uploads + 1
                 /\ media' = AfterUpload(media, result)
                 /\ courses' = Append(courses, NewCourse(body, result, id))
                 /\ users' = PushCreatedCourse(users, id, Len(courses) + 1)
                 /\ last' = Resp("createNewCourse", req, 201,
                                 [_id |-> Len(courses) + 1])
    /\ UNCHANGED lectures
    /\ CourseFrame

updateCourseDetails(bodies) ==
    /\ \E id \in Callers, courseId \in CourseIds, body \in bodies,
          file \in Files, ok \in BOOLEAN :
        LET req == [id |-> id, courseId |-> courseId, body |-> body, file |-> file]
            status == updateStatus(courses, courseId, id, file)
            result == uploadMedia(ok)
            thumbnail == IF file = Undefined THEN NoMedia
                         ELSE IF result # NoMedia THEN result
                         ELSE LocalPath(file)
        IN  IF status # 200
            THEN /\ last' = Resp("updateCourseDetails", req, status, [x |-> 0])
                 /\ UNCHANGED <<courses, media, uploads>>
            ELSE /\ IF file = Undefined
                    THEN UNCHANGED <<media, uploads>>
                    ELSE /\ uploads < MaxUploads
                         /\ uploads' = IF ok THEN uploads + 1 ELSE uploads
                         /\ media' = AfterUpload(
                                deleteMedia(media, courses[courseId].thumbnail), result)
                 /\ courses' = [courses EXCEPT
                        ![courseId] = UpdateFields(@, body, thumbnail)]
                 /\ last' = Resp("updateCourseDetails", req, 200, [x |-> 0])
    /\ UNCHANGED <<users, lectures>>
    /\ CourseFrame

addLectureToCourse(bodies) ==
    /\ \E id \in Callers, courseId \in CourseIds, body \in bodies,
          file \in Files, ok \in BOOLEAN :
        LET req == [id |-> id, courseId |-> courseId, body |-> body, file |-> file]
            status == addLectureStatus(courses, courseId, id, file)
            result == uploadMedia(ok)
        IN  IF status # 0
            THEN /\ last' = Resp("addLectureToCourse", req, status, [x |-> 0])
                 /\ UNCHANGED <<courses, lectures, media, uploads>>
            ELSE IF result = NoMedia
            THEN /\ last' = Resp("addLectureToCourse", req, 500, [x |-> 0])
                 /\ UNCHANGED <<courses, lectures, media, uploads>>
            ELSE /\ Len(lectures) < MaxLectures
                 /\ uploads' = uploads + 1
                 /\ media' = AfterUpload(media, result)
                 /\ lectures' = Append(lectures,
                        NewLecture(courses[courseId], body, result))
                 /\ courses' = SaveLecturePush(courses, courseId, Len(lectures) + 1)
                 /\ last' = Resp("addLectureToCourse", req, 201,
                                 LectureDoc(lectures', Len(lectures) + 1))
    /\ UNCHANGED users
    /\ CourseFrame

getCourseLectures ==
    /\ \E id \in Callers, courseId \in CourseIds :
        LET req == [id |-> id, courseId |-> courseId]
        IN  IF courseId \notin DOMAIN courses
            THEN last' = Resp("getCourseLectures", req, 404, [x |-> 0])
            ELSE LET course == courses[courseId]
                     isEnrolled == \E i \in DOMAIN course.enrolledStudents :
                                        course.enrolledStudents[i] = id
                     isInstructor == course.instructor = id
                 IN  \E lects \in PopulateLectures(lectures, course.lectures) :
                        last' = Resp("getCourseLectures", req, 200,
                            [ lectures |-> visibleLectures(lects, isEnrolled, isInstructor),
                              isEnrolled |-> isEnrolled,
                              isInstructor |-> isInstructor ])
    /\ UNCHANGED <<users, courses, lectures, media, uploads>>
    /\ CourseFrame

\* enrollment bookkeeping: a student is added to the course's enrolledStudents
enrollStudent ==
    /\ \E id \in Callers, courseId \in DOMAIN courses :
        /\ \A i \in DOMAIN courses[courseId].enrolledStudents :
                courses[courseId].enrolledStudents[i] # id
        /\ courses' = [courses EXCEPT ![courseId].enrolledStudents = Append(@, id)]
        /\ last' = Resp("enrollStudent", [id |-> id, courseId |-> courseId], 200, [x |-> 0])
    /\ UNCHANGED <<users, lectures, media, uploads>>
    /\ CourseFrame

----------------------------------------------------------------------------
(* Request payloads *)

BodyA ==
    [ title |-> <<"J","a">>, subtitle |-> <<"a">>, description |-> <<"b","a">>,
      category |-> "web", level |-> "beginner", price |-> 10 ]

BodyB ==
    [ title |-> <<"G","o">>, subtitle |-> <<"o">>, description |-> <<"a","b">>,
      category |-> "data", level |-> "advanced", price |-> 30 ]

\* PATCH bodies: nothing, one field, and two fields together with keys the
\* handler does not read
UpdateBodies ==
    { <<>>,
      [ title |-> <<"G","o">> ],
      [ level |-> "advanced", price |-> 30, instructor |-> 2, isPublished |-> TRUE ] }

IntroLecture == [ title |-> "intro", isPreview |-> TRUE ]

LectureBodies ==
    { IntroLecture,
      [ title |-> "intro", isPreview |-> FALSE ],
      [ title |-> "intro" ] }

\* accounts registered before the course requests start
SeedUsers ==
    << [NewUser(<<"a","b">>, "pw1", "instructor") EXCEPT !.lastActive = 1],
       [NewUser(<<"b","a">>, "pw2", "student") EXCEPT !.lastActive = 1] >>

InitSeeded ==
    /\ users = SeedUsers
    /\ courses = <<>>
    /\ lectures = <<>>
    /\ media = {}
    /\ uploads = 0
    /\ now = 1
    /\ nextToken = 0
    /\ consumed = {}
    /\ reqs = [r \in 1..MaxReqs |-> [pc |-> "idle"]]
    /\ last = NoResp

NextCourse ==
    \/ createNewCourse({1}, {BodyA}, MaxCourses)
    \/ updateCourseDetails(UpdateBodies)
    \/ addLectureToCourse({IntroLecture})

SpecCourse == InitSeeded /\ [][NextCourse]_vars

NextLecture ==
    \/ createNewCourse({1}, {BodyA}, MaxCourses)
    \/ addLectureToCourse(LectureBodies)
    \/ enrollStudent
    \/ getCourseLectures

SpecLecture == InitSeeded /\ [][NextLecture]_vars

----------------------------------------------------------------------------
(* course.controller.js: search and listing *)

Digits == {"0", "1", "2", "3", "4", "5", "6", "7", "8", "9"}

DigitValue(ch) ==
    CASE ch = "0" -> 0 [] ch = "1" -> 1 [] ch = "2" -> 2 [] ch = "3" -> 3
      [] ch = "4" -> 4 [] ch = "5" -> 5 [] ch = "6" -> 6 [] ch = "7" -> 7
      [] ch = "8" -> 8 [] ch = "9" -> 9

\* the number of leading characters of s, from position i, that are digits
RECURSIVE DigitRun(_, _)
DigitRun(s, i) ==
    IF i <= Len(s) /\ s[i] \in Digits THEN 1 + DigitRun(s, i + 1) ELSE 0

\* the value of the digits s[i..j]
RECURSIVE DigitsValue(_, _, _)
DigitsValue(s, i, j) ==
    IF j < i THEN 0 ELSE 10 * DigitsValue(s, i, j - 1) + DigitValue(s[j])

\* parseInt(param): None stands for NaN.  An optional sign, then the longest
\* run of digits; whatever follows the digits is ignored.
parseInt(param) ==
    IF param = None THEN None
    ELSE LET s == param[1]
             neg == Len(s) >= 1 /\ s[1] = "-"
             from == IF neg THEN 2 ELSE 1
             n == DigitRun(s, from)
         IN  IF n = 0 THEN None
             ELSE LET v == DigitsValue(s, from, from + n - 1)
                  IN  Some(IF neg THEN 0 - v ELSE v)

\* parseInt(x) || fallback: NaN and 0 are falsy
OrDefault(parsed, fallback) ==
    IF parsed = None \/ parsed[1] = 0 THEN fallback ELSE parsed[1]

DefaultPage == 1
DefaultLimit == 10

skipOf_PageTimesLimit(page, limit) == page * limit

\* const skip = (page - 1) * limit
skipOf(page, limit) == (page - 1) * limit

\* Math.ceil(total / limit) for a positive limit
pagesOf(total, limit) ==
    IF total % limit = 0 THEN total \div limit ELSE total \div limit + 1

\* mongo regular-expression match with option "i": the pattern occurs
\* somewhere in the text, letters compared without case, "." fitting any
\* character
RegexMatch(pattern, text) ==
    \E offset \in 0..(Len(text) - Len(pattern)) :
        \A k \in 1..Len(pattern) :
            \/ pattern[k] = "."
            \/ LowerChar(pattern[k]) = LowerChar(text[offset + k])

\* the first position of s, from i on, that holds "-", or Len(s) + 1
RECURSIVE DashAt(_, _)
DashAt(s, i) ==
    IF i > Len(s) \/ s[i] = "-" THEN i ELSE DashAt(s, i + 1)

\* const [min, max] = priceRange.split("-")
splitRange(s) ==
    LET d == DashAt(s, 1)
        e == DashAt(s, d + 1)
    IN  [ min |-> SubSeq(s, 1, d - 1), max |-> SubSeq(s, d + 1, e - 1) ]

\* the query layer's cast of a string to the Number type of `price`: None
\* when the string is not a number
castNumber(s) ==
    IF Len(s) >= 1 /\ DigitRun(s, 1) = Len(s)
    THEN Some(DigitsValue(s, 1, Len(s)))
    ELSE None

searchCriteria_NoPublished(query, categories, level, priceRange) ==
    [ isPublished |-> {TRUE, FALSE},
      text |-> query,
      categories |-> categories,
      level |-> level,
      price |-> IF priceRange = None THEN None ELSE Some(splitRange(priceRange[1])) ]

\* the search criteria built from the request: the published flag and the
\* text pattern always, the other conditions only when supplied
searchCriteria(query, categories, level, priceRange) ==
    [ isPublished |-> {TRUE},
      text |-> query,
      categories |-> categories,
      level |-> level,
      price |-> IF priceRange = None THEN None ELSE Some(splitRange(priceRange[1])) ]

\* the criteria cannot be cast to the schema: the query is rejected
CriteriaInvalid(criteria) ==
    /\ criteria.price # None
    /\ \/ castNumber(criteria.price[1].min) = None
       \/ castNumber(criteria.price[1].max) = None

\* Course.find(criteria): whether a document matches
Matches(course, criteria) ==
    /\ course.isPublished \in criteria.isPublished
    /\ \/ RegexMatch(criteria.text, course.title)
       \/ RegexMatch(criteria.text, course.subtitle)
       \/ RegexMatch(criteria.text, course.description)
    /\ criteria.categories # {} => course.category \in criteria.categories
    /\ criteria.level # None => course.level = criteria.level[1]
    /\ criteria.price # None =>
            /\ course.price >= castNumber(criteria.price[1].min)[1]
            /\ course.price <= castNumber(criteria.price[1].max)[1]

\* the switch on sortBy: the field sorted on and the direction
sortOptions(sortBy) ==
    CASE sortBy = "newest"        -> [field |-> "createdAt", dir |-> -1]
      [] sortBy = "oldest"        -> [field |-> "createdAt", dir |-> 1]
      [] sortBy = "price-high"    -> [field |-> "price", dir |-> -1]
      [] sortBy = "price-low"     -> [field |-> "price", dir |-> 1]
      [] sortBy = "highestRating" -> [field |-> "averageRating", dir |-> -1]
      [] sortBy = "lowestRating"  -> [field |-> "averageRating", dir |-> 1]
      [] OTHER                    -> [field |-> "createdAt", dir |-> -1]

\* the stored value a document is sorted on; documents are created one after
\* another, so createdAt grows with _id; averageRating is derived, not stored
SortValue(cs, id, field) ==
    CASE field = "createdAt" -> id
      [] field = "price"     -> cs[id].price
      [] OTHER               -> 0

\* .sort(options): every ordering of the ids that respects the sort
Sorted(cs, ids, options) ==
    { s \in [1..Cardinality(ids) -> ids] :
        /\ \A id \in ids : \E i \in DOMAIN s : s[i] = id
        /\ \A i, j \in DOMAIN s : i < j =>
              options.dir * SortValue(cs, s[i], options.field)
                <= options.dir * SortValue(cs, s[j], options.field) }

\* Course.find({ isPublished: true }) and Course.countDocuments(the same)
listedFilter(course) == course.isPublished

QueryInputs == { None, Some(<<"j","A">>), Some(<<".","b">>) }
CategoryInputs == { {}, {"data"} }
LevelInputs == { None, Some("beginner") }
PriceRangeInputs == { None, Some(<<"1","0","-","2","0">>), Some(<<"x","-","3","0">>) }
SortInputs == { None, Some("price-high"), Some("lowestRating"), Some("rating") }

searchCourses ==
    /\ \E q \in QueryInputs, categories \in CategoryInputs, level \in LevelInputs,
          priceRange \in PriceRangeInputs, sort \in SortInputs :
        LET req == [ query |-> q, categories |-> categories, level |-> level,
                     priceRange |-> priceRange, sortBy |-> sort ]
            query == IF q = None THEN <<>> ELSE q[1]
            sortBy == IF sort = None THEN "newest" ELSE sort[1]
            criteria == searchCriteria(query, categories, level, priceRange)
            found == { id \in DOMAIN courses : Matches(courses[id], criteria) }
        IN  IF CriteriaInvalid(criteria)
            THEN last' = Resp("searchCourses", req, 500, <<>>)
            ELSE \E result \in Sorted(courses, found, sortOptions(sortBy)) :
                    last' = Resp("searchCourses", req, 200, result)
    /\ UNCHANGED <<users, courses, lectures, media, uploads>>
    /\ CourseFrame

getPublishedCourses(pageInputs, limitInputs) ==
    /\ \E pageIn \in pageInputs, limitIn \in limitInputs :
        LET req == [ page |-> pageIn, limit |-> limitIn ]
            page == OrDefault(parseInt(pageIn), DefaultPage)
            limit == OrDefault(parseInt(limitIn), DefaultLimit)
            skip == skipOf(page, limit)
            found == { id \in DOMAIN courses : listedFilter(courses[id]) }
            total == Cardinality(found)
        IN  IF skip < 0
            THEN \* the database rejects a negative skip
                 last' = Resp("getPublishedCourses", req, 500,
                              [ courses |-> <<>>, page |-> page, limit |-> limit,
                                total |-> 0, pages |-> 0 ])
            ELSE \E all \in Sorted(courses, found, [field |-> "createdAt", dir |-> -1]) :
                    last' = Resp("getPublishedCourses", req, 200,
                        [ courses |-> SubSeq(all, skip + 1, Min(skip + limit, total)),
                          page |-> page, limit |-> limit, total |-> total,
                          pages |-> pagesOf(total, limit) ])
    /\ UNCHANGED <<users, courses, lectures, media, uploads>>
    /\ CourseFrame

\* publication: a course's isPublished flag is switched
togglePublish ==
    /\ \E courseId \in DOMAIN courses :
        /\ courses' = [courses EXCEPT ![courseId].isPublished = ~@]
        /\ last' = Resp("togglePublish", [courseId |-> courseId], 200, <<>>)
    /\ UNCHANGED <<users, lectures, media, uploads>>
    /\ CourseFrame

PageInputs ==
    { None, Some(<<"a","b","c">>), Some(<<"0">>), Some(<<"1">>), Some(<<"2">>),
      Some(<<"3">>), Some(<<"2","x">>), Some(<<"-","1">>) }
LimitInputs ==
    { None, Some(<<"x">>), Some(<<"0">>), Some(<<"1">>), Some(<<"2">>), Some(<<"1","2">>) }

NextSearch ==
    \/ createNewCourse({1}, {BodyA, BodyB}, MaxCatalog)
    \/ togglePublish
    \/ searchCourses
    \/ getPublishedCourses({None, Some(<<"2">>)}, {None, Some(<<"1">>)})

SpecSearch == InitSeeded /\ [][NextSearch]_vars

NextPage ==
    \/ createNewCourse({1}, {BodyA}, MaxListed)
    \/ togglePublish
    \/ getPublishedCourses(PageInputs, LimitInputs)

SpecPage == InitSeeded /\ [][NextPage]_vars

----------------------------------------------------------------------------
(* addLectureToCourse as concurrent requests: one step per awaited call *)

IdleReq ==
    [ pc |-> "idle", id |-> 0, courseId |-> 0, body |-> <<>>, course |-> <<>>,
      result |-> NoMedia, lecture |-> 0, status |-> 0 ]

ConcFrame == UNCHANGED <<users, now, nextToken, consumed, last>>

\* await Course.findById(courseId), then the checks on the document read
addLectureRead(r, bodies) ==
    /\ reqs[r].pc = "idle"
    /\ \E id \in Callers, courseId \in CourseIds, body \in bodies, file \in Files :
        LET status == addLectureStatus(courses, courseId, id, file)
        IN  reqs' = [reqs EXCEPT ![r] =
                IF status # 0
                THEN [IdleReq EXCEPT !.pc = "done", !.id = id, !.courseId = courseId,
                                     !.body = body, !.status = status]
                ELSE [IdleReq EXCEPT !.pc = "read", !.id = id, !.courseId = courseId,
                                     !.body = body, !.course = courses[courseId]]]
    /\ UNCHANGED <<courses, lectures, media, uploads>>
    /\ ConcFrame

\* await uploadMedia(req.file.path)
addLectureUpload(r) ==
    /\ reqs[r].pc = "read"
    /\ \E ok \in BOOLEAN :
        LET result == uploadMedia(ok)
        IN  IF result = NoMedia
            THEN /\ reqs' = [reqs EXCEPT ![r].pc = "done", ![r].status = 500]
                 /\ UNCHANGED <<media, uploads>>
            ELSE /\ reqs' = [reqs EXCEPT ![r].pc = "uploaded", ![r].result = result]
                 /\ uploads' = uploads + 1
                 /\ media' = AfterUpload(media, result)
    /\ UNCHANGED <<courses, lectures>>
    /\ ConcFrame

\* await Lecture.create({...}) from the course document read earlier
addLectureCreate(r) ==
    /\ reqs[r].pc = "uploaded"
    /\ Len(lectures) < MaxLectures
    /\ lectures' = Append(lectures,
            NewLecture(reqs[r].course, reqs[r].body, reqs[r].result))
    /\ reqs' = [reqs EXCEPT ![r].pc = "created", ![r].lecture = Len(lectures) + 1]
    /\ UNCHANGED <<courses, media, uploads>>
    /\ ConcFrame

\* course.lectures.push(lecture._id); await course.save()
addLectureSave(r) ==
    /\ reqs[r].pc = "created"
    /\ courses' = SaveLecturePush(courses, reqs[r].courseId, reqs[r].lecture)
    /\ reqs' = [reqs EXCEPT ![r].pc = "done", ![r].status = 201]
    /\ UNCHANGED <<lectures, media, uploads>>
    /\ ConcFrame

InitConc ==
    /\ users = SeedUsers
    /\ courses = <<>>
    /\ lectures = <<>>
    /\ media = {}
    /\ uploads = 0
    /\ now = 1
    /\ nextToken = 0
    /\ consumed = {}
    /\ reqs = [r \in 1..MaxReqs |-> IdleReq]
    /\ last = NoResp

NextConc ==
    \/ createNewCourse({1}, {BodyA}, MaxCourses)
    \/ \E r \in 1..MaxReqs : addLectureRead(r, {IntroLecture})
    \/ \E r \in 1..MaxReqs : addLectureUpload(r)
    \/ \E r \in 1..MaxReqs : addLectureCreate(r)
    \/ \E r \in 1..MaxReqs : addLectureSave(r)

SpecConc == InitConc /\ [][NextConc]_vars

----------------------------------------------------------------------------
(* Properties of user.controller.js, checked under SpecUser *)

\* the accounts registered under an address, compared without regard to case
AccountsFor(us, email) ==
    { i \in DOMAIN us : toLowerCase(us[i].email) = toLowerCase(email) }

\* C3: a signup whose email matches a registered account case-insensitively
\* is answered 409 and leaves the accounts unchanged, and after any signup no
\* two stored accounts have the same lowercased email.
C3_SignupConflict ==
    [][ last'.op = "createUserAccount" =>
          /\ AccountsFor(users, last'.req.email) # {} =>
                (last'.status = 409 /\ users' = users)
          /\ last'.status = 409 => AccountsFor(users, last'.req.email) # {}
          /\ \A i, j \in DOMAIN users' :
                toLowerCase(users'[i].email) = toLowerCase(users'[j].email) => i = j
      ]_vars

\* a signup was rejected although no account stores the address as typed
C3_Witness ==
    /\ last.op = "createUserAccount"
    /\ last.status = 409
    /\ \A i \in DOMAIN users : users[i].email # last.req.email

\* C4: signing in to a registered email with the account's current password
\* issues a credential carrying that account's id; a wrong password is
\* answered 401 and an unregistered email 404, and in both failures no
\* credential is issued and no account (so no last-active stamp) changes.
C4_Signin ==
    [][ last'.op = "authenticateUser" =>
          LET email == last'.req.email
              password == last'.req.password
              known == AccountsFor(users, email)
          IN  /\ known = {} =>
                    /\ last'.status = 404
                    /\ last'.data = NoCredential
                    /\ users' = users
              /\ \A i \in known :
                    IF users[i].password = <<"bcrypt", password>>
                    THEN /\ last'.status = 200
                         /\ last'.data.userId = i
                    ELSE /\ last'.status = 401
                         /\ last'.data = NoCredential
                         /\ users' = users
      ]_vars

\* the second account signed in after its password had been replaced
C4_Witness ==
    /\ last.op = "authenticateUser"
    /\ last.status = 200
    /\ last.data.userId = 2
    /\ last.req.password = "pw2"
    /\ consumed # {}

\* the accounts a reset token is valid for at a given time
ValidFor(us, token, time) ==
    { i \in DOMAIN us :
        /\ us[i].resetPasswordToken = [alg |-> "sha256", of |-> token]
        /\ us[i].resetPasswordExpire > time }

\* C6: resetPassword changes a password only when the digest of the supplied
\* token is an account's stored digest and its expiry is in the future, and
\* then clears that account's token fields; otherwise it answers 404 and
\* changes no account.  A token that has been used once is never accepted
\* again.
C6_ResetOnce ==
    [][ last'.op = "resetPassword" =>
          LET token == last'.req.token
              valid == ValidFor(users, token, now)
          IN  IF valid = {}
              THEN last'.status = 404 /\ users' = users
              ELSE /\ last'.status = 200
                   /\ token \notin consumed
                   /\ \E i \in valid :
                        /\ users'[i].password = <<"bcrypt", last'.req.password>>
                        /\ users'[i].resetPasswordToken = NoDigest
                        /\ users'[i].resetPasswordExpire = NoExpire
                        /\ \A j \in DOMAIN users : j # i => users'[j] = users[j]
                   /\ ValidFor(users', token, now') = {}
      ]_vars

\* a token that had already reset a password was presented again, before its
\* expiry time, and was refused
C6_Witness ==
    /\ last.op = "resetPassword"
    /\ last.status = 404
    /\ last.req.token \in consumed
    /\ now = 1

----------------------------------------------------------------------------
(* Properties of course.controller.js *)

\* C1 (SpecCourse): updateCourseDetails and addLectureToCourse answer 404 for
\* a course that does not exist and 403 for an existing course whose
\* instructor is not the caller, whatever the body and whether or not a file
\* is attached, and in both cases leave the courses, the lectures and the
\* media store as they were; 400 is answered only to the owner.
C1_OwnershipFirst ==
    [][ last'.op \in {"updateCourseDetails", "addLectureToCourse"} =>
          LET courseId == last'.req.courseId
              callerId == last'.req.id
              untouched == /\ courses' = courses
                           /\ lectures' = lectures
                           /\ media' = media
                           /\ uploads' = uploads
          IN  IF courseId \notin DOMAIN courses
              THEN last'.status = 404 /\ untouched
              ELSE /\ courses[courseId].instructor # callerId =>
                        (last'.status = 403 /\ untouched)
                   /\ last'.status = 403 => courses[courseId].instructor # callerId
                   /\ last'.status = 400 =>
                        /\ courses[courseId].instructor = callerId
                        /\ last'.req.file = Undefined
      ]_vars

\* a caller who does not own the course asked to add a lecture without a
\* file and was refused as not authorized
C1_Witness ==
    /\ last.op = "addLectureToCourse"
    /\ last.status = 403
    /\ last.req.file = Undefined
    /\ last.req.courseId \in DOMAIN courses

UpdatableFields == {"title", "subtitle", "description", "category", "level", "price"}

\* C8 (SpecCourse): a successful updateCourseDetails sets exactly the fields
\* of title, subtitle, description, category, level and price that the body
\* supplies, keeps the others, keeps the thumbnail when no file is attached,
\* and never changes instructor, lectures, enrolledStudents or isPublished,
\* nor any other course; no request at all changes a course's instructor.
C8_PartialUpdate ==
    [][ /\ \A c \in DOMAIN courses :
              c \in DOMAIN courses' /\ courses'[c].instructor = courses[c].instructor
        /\ (last'.op = "updateCourseDetails" /\ last'.status = 200) =>
              LET courseId == last'.req.courseId
                  body == last'.req.body
                  old == courses[courseId]
                  new == courses'[courseId]
              IN  /\ \A f \in UpdatableFields :
                        new[f] = IF f \in DOMAIN body THEN body[f] ELSE old[f]
                  /\ last'.req.file = Undefined => new.thumbnail = old.thumbnail
                  /\ new.instructor = old.instructor
                  /\ new.lectures = old.lectures
                  /\ new.enrolledStudents = old.enrolledStudents
                  /\ new.isPublished = old.isPublished
                  /\ \A c \in DOMAIN courses : c # courseId => courses'[c] = courses[c]
      ]_vars

\* the owner sent a title alone, after an earlier update of level and price,
\* and the earlier values are still stored
C8_Witness ==
    /\ last.op = "updateCourseDetails"
    /\ last.status = 200
    /\ DOMAIN last.req.body = {"title"}
    /\ last.req.file = Undefined
    /\ courses[last.req.courseId].title = <<"G","o">>
    /\ courses[last.req.courseId].price = 30
    /\ courses[last.req.courseId].instructor = 1

\* C2 (SpecLecture): getCourseLectures reports the caller's enrollment and
\* ownership as they are, returns only preview lectures (and all of those) to
\* a caller who is neither enrolled nor the instructor, and the full lecture
\* list to one who is.
C2_LectureVisibility ==
    [][ (last'.op = "getCourseLectures" /\ last'.status = 200) =>
          LET course == courses[last'.req.courseId]
              callerId == last'.req.id
              enrolled == callerId \in Range(course.enrolledStudents)
              owner == course.instructor = callerId
              returned == { last'.data.lectures[i]._id : i \in DOMAIN last'.data.lectures }
              all == Range(course.lectures)
          IN  /\ last'.data.isEnrolled = enrolled
              /\ last'.data.isInstructor = owner
              /\ Len(last'.data.lectures) = Cardinality(returned)
              /\ IF enrolled \/ owner
                 THEN returned = all
                 ELSE returned = { id \in all : lectures[id].isPreview }
      ]_vars

\* a caller without access read a course that has a lecture that is not a
\* preview, and got a preview lecture only
C2_Witness ==
    /\ last.op = "getCourseLectures"
    /\ last.status = 200
    /\ ~last.data.isEnrolled
    /\ ~last.data.isInstructor
    /\ Len(last.data.lectures) = 1
    /\ Len(courses[last.req.courseId].lectures) = 2

\* C7 (SpecLecture, one request at a time): the lecture at position k of a
\* course's list has order k, and a successful addLectureToCourse returns a
\* lecture that is last in the list with order equal to the list's length.
C7_SequentialOrder ==
    /\ \A c \in DOMAIN courses : \A k \in DOMAIN courses[c].lectures :
            lectures[courses[c].lectures[k]].order = k
    /\ (last.op = "addLectureToCourse" /\ last.status = 201) =>
            LET list == courses[last.req.courseId].lectures
            IN  /\ Len(list) >= 1
                /\ list[Len(list)] = last.data._id
                /\ last.data.order = Len(list)

\* the second lecture of a course was added
C7_Witness ==
    /\ last.op = "addLectureToCourse"
    /\ last.status = 201
    /\ last.data.order = 2
    /\ Len(courses[last.req.courseId].lectures) = 2

\* C10 (SpecConc): requests that read the same course while it held the same
\* number of lectures create lectures with the same order, so concurrent
\* additions are not serialized.
C10_RaceSameOrder ==
    \A r1, r2 \in 1..MaxReqs :
        ( /\ reqs[r1].pc \in {"created", "done"} /\ reqs[r1].lecture # 0
          /\ reqs[r2].pc \in {"created", "done"} /\ reqs[r2].lecture # 0
          /\ reqs[r1].courseId = reqs[r2].courseId
          /\ Len(reqs[r1].course.lectures) = Len(reqs[r2].course.lectures) )
        => lectures[reqs[r1].lecture].order = lectures[reqs[r2].lecture].order

\* two lectures in one course's list carry the same order
C10_Witness ==
    \E c \in DOMAIN courses : \E i, j \in DOMAIN courses[c].lectures :
        /\ i # j
        /\ lectures[courses[c].lectures[i]].order = lectures[courses[c].lectures[j]].order

----------------------------------------------------------------------------
(* Properties of search and listing *)

\* what the page and limit parameters of the listing stand for: 0 where the
\* default applies (nothing sent, no leading digits, or zero)
ParamMeaning(param) ==
    CASE param = None                -> 0
      [] param = Some(<<"a","b","c">>) -> 0
      [] param = Some(<<"x">>)       -> 0
      [] param = Some(<<"0">>)       -> 0
      [] param = Some(<<"1">>)       -> 1
      [] param = Some(<<"2">>)       -> 2
      [] param = Some(<<"3">>)       -> 3
      [] param = Some(<<"2","x">>)   -> 2
      [] param = Some(<<"1","2">>)   -> 12
      [] param = Some(<<"-","1">>)   -> -1

Published == { id \in DOMAIN courses : courses[id].isPublished }

RangeMeaning(param) ==
    CASE param = Some(<<"1","0","-","2","0">>) -> [min |-> 10, max |-> 20]
      [] OTHER -> [min |-> 1, max |-> 0]

WellFormedRange(param) == param = Some(<<"1","0","-","2","0">>)

\* the text occurs in the field, letters compared without case; a "." of the
\* query fits any character, the query being used as a regular expression
Occurs(text, value) ==
    \E i \in 1..(Len(value) - Len(text) + 1) :
        \A k \in 1..Len(text) :
            text[k] = "." \/ toLowerCase(value)[i + k - 1] = toLowerCase(text)[k]

\* a course meets every filter the request supplies
MeetsFilters(course, req) ==
    /\ course.isPublished
    /\ req.query # None =>
            \/ Occurs(req.query[1], course.title)
            \/ Occurs(req.query[1], course.subtitle)
            \/ Occurs(req.query[1], course.description)
    /\ req.categories # {} => course.category \in req.categories
    /\ req.level # None => course.level = req.level[1]
    /\ WellFormedRange(req.priceRange) =>
            /\ course.price >= RangeMeaning(req.priceRange).min
            /\ course.price <= RangeMeaning(req.priceRange).max

====
